---- MODULE Spec2Model ----
(***************************************************************************)
(* Model of zpd (src/main.rs): a polling loop that watches the size of one *)
(* file, prints a status line per tick and a summary when it stops, plus   *)
(* the pure formatting helpers it uses.                                    *)
(*                                                                         *)
(* Byte counts are u64 in the program.  The monitor loop works on plain    *)
(* integers below 2^30; format_bytes takes its argument as a two-limb      *)
(* value [hi, lo] in base 2^30 (ToU64 converts), so that byte counts of    *)
(* 2^40 and more can be formatted with 32-bit integer arithmetic.          *)
(***************************************************************************)
EXTENDS Integers, Sequences, FiniteSets

\* ------------------------------------------------------------------ bounds
\* most file-size reads one run performs
MaxReads == 7
\* most seconds start_time.elapsed() runs ahead of the number of sleeps
MaxLag == 1
\* largest argument count tried (program name included)
MaxArgs == 3
\* largest hi limb (GB count) beyond 1024 tried in format_bytes
MaxHiExtra == 1
\* largest elapsed_secs handed to print_summary on its own
MaxSecs == 11

\* sizes a read of the file can return
Sizes == {0, 80, 100, 1024}

\* ----------------------------------------------------------------- options
None == << >>
Some(x) == << x >>
\* the value inside the option ignored
unwrap_or_default(o, d) == d

unwrap_or(o, d) == IF o = None THEN d ELSE o[1]

\* ------------------------------------------------------------ wide integers
Limb == 1073741824
ToU64(n) == [hi |-> n \div Limb, lo |-> n % Limb]

\* --------------------------------------------------------------- constants
KB == 1024
MB == KB * 1024
GB == MB * 1024
IdleLimit == 5

\* plain subtraction
saturating_sub_signed(a, b) == a - b

\* u64::saturating_sub
saturating_sub(a, b) == IF a >= b THEN a - b ELSE 0

\* line 97
compute_delta(current_size, prev) == saturating_sub(current_size, prev)

\* a counter that growth does not reset
next_no_change_count_sticky(delta, count) == count + 1

\* lines 99-107
next_no_change_count(delta, count) == IF delta = 0 THEN count + 1 ELSE 0

\* the threshold one too high
idle_timeout_late(count) == count > IdleLimit

\* the threshold off by one
idle_timeout_early(count) == count >= IdleLimit - 1

\* line 116
idle_timeout(count) == count >= IdleLimit

\* every failure taken for a file that has not appeared yet
file_was_seen_never(prev) == FALSE

\* every failure taken for a file that went away
file_was_seen_always(prev) == TRUE

\* line 126
file_was_seen(prev) == prev /= None

\* the first size overwritten by every read
first_size_latest(initial, current_size) == Some(current_size)

\* lines 92-94
first_size(initial, current_size) ==
    IF initial = None THEN Some(current_size) ELSE initial

\* a previous size that is never lowered
new_previous_max(prev, current_size) ==
    IF prev /= None /\ prev[1] > current_size THEN prev ELSE Some(current_size)

\* line 123
new_previous(prev, current_size) == Some(current_size)

\* a strict comparison
GtU64(bytes, unit) == bytes.hi >= 1 \/ bytes.lo > unit

\* bytes >= unit, for a unit that is at most 2^30
GeU64(bytes, unit) == bytes.hi >= 1 \/ bytes.lo >= unit

\* format!("{:.2}", bytes as f64 / unit as f64): the quotient in hundredths,
\* rounded half to even.  unit is a power of 1024, so the f64 quotient is
\* exact for every bytes < 2^53.
Fixed2(bytes, unit) ==
    LET whole == bytes.hi * (Limb \div unit) + bytes.lo \div unit
        r     == bytes.lo % unit
        uh    == unit \div 1024
        a     == (r \div 1024) * 100 + ((r % 1024) * 100) \div 1024
        low   == ((r % 1024) * 100) % 1024
        q     == a \div uh
        rem   == (a % uh) * 1024 + low
        half  == unit \div 2
        up    == IF rem > half \/ (rem = half /\ q % 2 = 1) THEN 1 ELSE 0
    IN  whole * 100 + q + up

\* The rendered string: digits with `decimals` digits after the point, and
\* the unit suffix.
format_bytes(bytes) ==
    IF GeU64(bytes, GB) THEN [digits |-> Fixed2(bytes, GB), decimals |-> 2, unit |-> "GB"]
    ELSE IF GeU64(bytes, MB) THEN [digits |-> Fixed2(bytes, MB), decimals |-> 2, unit |-> "MB"]
    ELSE IF GeU64(bytes, KB) THEN [digits |-> Fixed2(bytes, KB), decimals |-> 2, unit |-> "KB"]
    ELSE [digits |-> bytes.lo, decimals |-> 0, unit |-> "B"]

\* the minutes of the whole duration next to the hours
format_duration_total_mins(secs) ==
    IF secs >= 3600 THEN
        << [n |-> secs \div 3600, u |-> "h"],
           [n |-> secs \div 60, u |-> "m"],
           [n |-> secs % 60, u |-> "s"] >>
    ELSE IF secs >= 60 THEN
        << [n |-> secs \div 60, u |-> "m"], [n |-> secs % 60, u |-> "s"] >>
    ELSE
        << [n |-> secs, u |-> "s"] >>

\* The rendered string as its components, in order.
format_duration(secs) ==
    IF secs >= 3600 THEN
        << [n |-> secs \div 3600, u |-> "h"],
           [n |-> (secs % 3600) \div 60, u |-> "m"],
           [n |-> secs % 60, u |-> "s"] >>
    ELSE IF secs >= 60 THEN
        << [n |-> secs \div 60, u |-> "m"], [n |-> secs % 60, u |-> "s"] >>
    ELSE
        << [n |-> secs, u |-> "s"] >>

\* A printed line: what it is, the number it was computed from, its text.
Line(kind, value, text) == [kind |-> kind, value |-> value, text |-> text]
BytesLine(kind, value) == Line(kind, value, << format_bytes(ToU64(value)) >>)

\* the total taken from the final size alone
print_summary_from_zero(initial_size, final_size, elapsed_secs) ==
    LET total_downloaded == final_size
    IN  << Line("summary", 0, << >>),
           BytesLine("total", total_downloaded),
           BytesLine("final", final_size),
           Line("duration", elapsed_secs, format_duration(elapsed_secs)) >>
        \o (IF elapsed_secs > 0
            THEN << BytesLine("average", total_downloaded \div elapsed_secs) >>
            ELSE << >>)

\* The lines print_summary writes to standard output.
print_summary(initial_size, final_size, elapsed_secs) ==
    LET total_downloaded == saturating_sub(final_size, unwrap_or(initial_size, 0))
    IN  << Line("summary", 0, << >>),
           BytesLine("total", total_downloaded),
           BytesLine("final", final_size),
           Line("duration", elapsed_secs, format_duration(elapsed_secs)) >>
        \o (IF elapsed_secs > 0
            THEN << BytesLine("average", total_downloaded \div elapsed_secs) >>
            ELSE << >>)

\* ------------------------------------------------------------------- state
VARIABLES
    pc,               \* where main is
    argc,             \* args.len()
    running,          \* the AtomicBool shared with the Ctrl+C handler
    previous_size,
    initial_size,
    last_known_size,
    no_change_count,
    sleeps,           \* completed one-second sleeps since start_time
    out,              \* lines written to standard output
    err,              \* lines written to standard error
    exit_code,        \* None while the process runs
    exit_path,        \* which exit of main was taken
    obs,              \* history: the result of every get_file_size call
    flag_set_at,      \* history: where main was when the handler first ran
    call              \* a helper applied on its own: input and result

vars == << pc, argc, running, previous_size, initial_size, last_known_size,
           no_change_count, sleeps, out, err, exit_code, exit_path, obs,
           flag_set_at, call >>

loopVars == << previous_size, initial_size, last_known_size, no_change_count >>

NoCall == [fn |-> "none", arg |-> << >>, res |-> << >>]

Init ==
    /\ pc = "start"
    /\ argc \in 1..MaxArgs
    /\ running = TRUE
    /\ previous_size = None
    /\ initial_size = None
    /\ last_known_size = 0
    /\ no_change_count = 0
    /\ sleeps = 0
    /\ out = << >>
    /\ err = << >>
    /\ exit_code = None
    /\ exit_path = "none"
    /\ obs = << >>
    /\ flag_set_at = None
    /\ call = NoCall

\* start_time.elapsed().as_secs(): every completed sleep took at least 1s
Elapsed == sleeps .. (sleeps + MaxLag)

\* ----------------------------------------------------------------- actions
\* main, lines 60-65: wrong argument count
UsageExit ==
    /\ pc = "start"
    /\ argc /= 2
    /\ err' = Append(err, Line("usage", 0, << >>))
    /\ exit_code' = Some(1)
    /\ exit_path' = "usage"
    /\ pc' = "exited"
    /\ UNCHANGED << argc, running, loopVars, sleeps, out, obs, flag_set_at, call >>

\* the argument count not checked
SetHandler_any_args ==
    /\ pc = "start"
    /\ \E ok \in BOOLEAN :
        IF ok
        THEN /\ pc' = "head"
             /\ out' = out \o << Line("banner", 0, << >>), Line("hint", 0, << >>) >>
             /\ UNCHANGED << exit_code, exit_path >>
        ELSE /\ pc' = "exited"
             /\ exit_code' = Some(101)
             /\ exit_path' = "panic"
             /\ UNCHANGED out
    /\ UNCHANGED << argc, running, loopVars, sleeps, err, obs, flag_set_at, call >>

\* main, lines 62-79 and 81-85: one path argument; install the handler
SetHandler ==
    /\ pc = "start"
    /\ argc = 2
    /\ \E ok \in BOOLEAN :
        IF ok
        THEN /\ pc' = "head"
             /\ out' = out \o << Line("banner", 0, << >>), Line("hint", 0, << >>) >>
             /\ UNCHANGED << exit_code, exit_path >>
        ELSE /\ pc' = "exited"
             /\ exit_code' = Some(101)
             /\ exit_path' = "panic"
             /\ UNCHANGED out
    /\ UNCHANGED << argc, running, loopVars, sleeps, err, obs, flag_set_at, call >>

\* a handler that flips the flag
Interrupt_toggle ==
    /\ pc \in {"head", "tick", "sleep"}
    /\ running' = ~running
    /\ flag_set_at' = IF flag_set_at = None
                      THEN Some([reads |-> Len(obs), pc |-> pc])
                      ELSE flag_set_at
    /\ UNCHANGED << pc, argc, loopVars, sleeps, out, err, exit_code, exit_path, obs, call >>

\* a handler that does not store to the flag
Interrupt_lost ==
    /\ pc \in {"head", "tick", "sleep"}
    /\ flag_set_at' = IF flag_set_at = None
                      THEN Some([reads |-> Len(obs), pc |-> pc])
                      ELSE flag_set_at
    /\ UNCHANGED << running, pc, argc, loopVars, sleeps, out, err, exit_code, exit_path, obs, call >>

\* the Ctrl+C handler, lines 73-75
Interrupt ==
    /\ pc \in {"head", "tick", "sleep"}
    /\ running' = FALSE
    /\ flag_set_at' = IF flag_set_at = None
                      THEN Some([reads |-> Len(obs), pc |-> pc])
                      ELSE flag_set_at
    /\ UNCHANGED << pc, argc, loopVars, sleeps, out, err, exit_code, exit_path, obs, call >>

\* a loop that does not look at the flag
LoopEnter_unguarded ==
    /\ pc = "head"
    /\ Len(obs) < MaxReads
    /\ pc' = "tick"
    /\ UNCHANGED << argc, running, loopVars, sleeps, out, err, exit_code, exit_path, obs, flag_set_at, call >>

\* line 87: the loop condition holds
LoopEnter ==
    /\ pc = "head"
    /\ running
    /\ Len(obs) < MaxReads
    /\ pc' = "tick"
    /\ UNCHANGED << argc, running, loopVars, sleeps, out, err, exit_code, exit_path, obs, flag_set_at, call >>

\* the exits inside the loop falling through to the code after the loop
LoopExit_fallthrough ==
    /\ \/ pc = "head" /\ ~running
       \/ pc = "exited" /\ exit_path \in {"idle", "inaccessible"}
    /\ \E e \in Elapsed :
        out' = out \o print_summary(initial_size, last_known_size, e)
    /\ exit_code' = Some(0)
    /\ exit_path' = "interrupt"
    /\ pc' = "exited"
    /\ UNCHANGED << argc, running, loopVars, sleeps, err, obs, flag_set_at, call >>

\* leaving the loop without the summary
LoopExit_silent ==
    /\ pc = "head"
    /\ ~running
    /\ exit_code' = Some(0)
    /\ exit_path' = "interrupt"
    /\ pc' = "exited"
    /\ UNCHANGED << argc, running, loopVars, sleeps, out, err, obs, flag_set_at, call >>

\* lines 87 and 140-142: the loop condition fails
LoopExit ==
    /\ pc = "head"
    /\ ~running
    /\ \E e \in Elapsed :
        out' = out \o print_summary(initial_size, last_known_size, e)
    /\ exit_code' = Some(0)
    /\ exit_path' = "interrupt"
    /\ pc' = "exited"
    /\ UNCHANGED << argc, running, loopVars, sleeps, err, obs, flag_set_at, call >>

\* lines 88-124: get_file_size returned Ok(current_size)
TickOk(current_size) ==
    /\ pc = "tick"
    /\ obs' = Append(obs, Some(current_size))
    /\ last_known_size' = current_size
    /\ initial_size' = first_size(initial_size, current_size)
    /\ IF previous_size /= None
       THEN LET prev  == previous_size[1]
                delta == compute_delta(current_size, prev)
                count == next_no_change_count(delta, no_change_count)
                status == IF delta = 0
                          THEN [kind |-> "idle", value |-> count,
                                text |-> << format_bytes(ToU64(current_size)) >>]
                          ELSE [kind |-> "speed", value |-> delta,
                                text |-> << format_bytes(ToU64(current_size)),
                                            format_bytes(ToU64(delta)) >>]
            IN  /\ no_change_count' = count
                /\ IF idle_timeout(count)
                   THEN /\ \E e \in Elapsed :
                            out' = Append(out, status)
                                   \o print_summary(initial_size', current_size, e)
                        /\ exit_code' = Some(0)
                        /\ exit_path' = "idle"
                        /\ pc' = "exited"
                        /\ UNCHANGED previous_size
                   ELSE /\ out' = Append(out, status)
                        /\ previous_size' = new_previous(previous_size, current_size)
                        /\ pc' = "sleep"
                        /\ UNCHANGED << exit_code, exit_path >>
       ELSE /\ out' = Append(out, BytesLine("initial", current_size))
            /\ previous_size' = new_previous(previous_size, current_size)
            /\ pc' = "sleep"
            /\ UNCHANGED << no_change_count, exit_code, exit_path >>
    /\ UNCHANGED << argc, running, sleeps, err, flag_set_at, call >>

\* a failure that zeroes the last known size
TickErr_forgets ==
    /\ pc = "tick"
    /\ obs' = Append(obs, None)
    /\ last_known_size' = 0
    /\ IF file_was_seen(previous_size)
       THEN /\ \E e \in Elapsed :
                out' = Append(out, Line("inaccessible", 0, << >>))
                       \o print_summary(initial_size, last_known_size', e)
            /\ exit_code' = Some(0)
            /\ exit_path' = "inaccessible"
            /\ pc' = "exited"
       ELSE /\ out' = Append(out, Line("waiting", 0, << >>))
            /\ pc' = "sleep"
            /\ UNCHANGED << exit_code, exit_path >>
    /\ UNCHANGED << argc, running, previous_size, initial_size, no_change_count,
                    sleeps, err, flag_set_at, call >>

\* lines 88 and 125-134: get_file_size returned Err(e)
TickErr ==
    /\ pc = "tick"
    /\ obs' = Append(obs, None)
    /\ IF file_was_seen(previous_size)
       THEN /\ \E e \in Elapsed :
                out' = Append(out, Line("inaccessible", 0, << >>))
                       \o print_summary(initial_size, last_known_size, e)
            /\ exit_code' = Some(0)
            /\ exit_path' = "inaccessible"
            /\ pc' = "exited"
       ELSE /\ out' = Append(out, Line("waiting", 0, << >>))
            /\ pc' = "sleep"
            /\ UNCHANGED << exit_code, exit_path >>
    /\ UNCHANGED << argc, running, loopVars, sleeps, err, flag_set_at, call >>

\* line 137
Sleep ==
    /\ pc = "sleep"
    /\ sleeps' = sleeps + 1
    /\ pc' = "head"
    /\ UNCHANGED << argc, running, loopVars, out, err, exit_code, exit_path, obs, flag_set_at, call >>

Tick == (\E s \in Sizes : TickOk(s)) \/ TickErr

Main == UsageExit \/ SetHandler \/ LoopEnter \/ LoopExit \/ Tick \/ Sleep

Next ==
    \/ UsageExit
    \/ SetHandler
    \/ Interrupt
    \/ LoopEnter
    \/ LoopExit
    \/ \E s \in Sizes : TickOk(s)
    \/ TickErr
    \/ Sleep

Spec == Init /\ [][Next]_vars

\* the main thread keeps being scheduled and every sleep ends
LiveSpec == Spec /\ WF_vars(Main)

\* ------------------------------------------------- the helpers on their own
HiValues == {0, 1, 2, 1023} \cup (1024 .. (1024 + MaxHiExtra))
LoValues == {0, 1, 1023, 1024, 1025, 1152, MB - 1, MB, MB + 1, MB + MB \div 8, Limb - 1}
ByteInputs == [hi : HiValues, lo : LoValues]
SummarySizes == {0, 80, 100, 1000, 1024, 5000}
SummaryInputs ==
    ({None} \cup {Some(n) : n \in SummarySizes}) \X SummarySizes \X (0 .. MaxSecs)
MaxHours == 2
DurationInputs ==
    {h * 3600 + m * 60 + s : h \in 0 .. MaxHours, m \in {0, 1, 59}, s \in {0, 1, 59}}

InitFn ==
    /\ pc = "start"
    /\ argc = 2
    /\ running = TRUE
    /\ previous_size = None
    /\ initial_size = None
    /\ last_known_size = 0
    /\ no_change_count = 0
    /\ sleeps = 0
    /\ out = << >>
    /\ err = << >>
    /\ exit_code = None
    /\ exit_path = "none"
    /\ obs = << >>
    /\ flag_set_at = None
    /\ call \in [fn : {"format_bytes"}, arg : {<< b >> : b \in ByteInputs}, res : {None}]
          \cup [fn : {"format_duration"}, arg : {<< d >> : d \in DurationInputs}, res : {None}]
          \cup [fn : {"print_summary"}, arg : SummaryInputs, res : {None}]

mainVars == << pc, argc, running, previous_size, initial_size, last_known_size,
               no_change_count, sleeps, out, err, exit_code, exit_path, obs,
               flag_set_at >>

CallFormatBytes ==
    /\ call.fn = "format_bytes"
    /\ call.res = None
    /\ call' = [call EXCEPT !.res = Some(format_bytes(call.arg[1]))]
    /\ UNCHANGED mainVars

CallFormatDuration ==
    /\ call.fn = "format_duration"
    /\ call.res = None
    /\ call' = [call EXCEPT !.res = Some(format_duration(call.arg[1]))]
    /\ UNCHANGED mainVars

CallPrintSummary ==
    /\ call.fn = "print_summary"
    /\ call.res = None
    /\ call' = [call EXCEPT !.res = Some(print_summary(call.arg[1], call.arg[2], call.arg[3]))]
    /\ UNCHANGED mainVars

NextFn == CallFormatBytes \/ CallFormatDuration \/ CallPrintSummary

SpecFn == InitFn /\ [][NextFn]_vars

\* ------------------------------------------------- reading the histories
Max0(n) == IF n > 0 THEN n ELSE 0
IsOk(o) == o /= None
\* the sizes of the successful reads, in order
Oks ==
    LET ok == SelectSeq(obs, IsOk)
    IN  [i \in 1 .. Len(ok) |-> ok[i][1]]
AllFailed == \A i \in 1 .. Len(obs) : ~IsOk(obs[i])
LastRead == obs[Len(obs)]
\* consecutive zero-delta ticks at the end of a sequence of sizes
RECURSIVE ZeroDeltaRun(_)
ZeroDeltaRun(sz) ==
    IF Len(sz) < 2 THEN 0
    ELSE IF Max0(sz[Len(sz)] - sz[Len(sz) - 1]) = 0
         THEN 1 + ZeroDeltaRun(SubSeq(sz, 1, Len(sz) - 1))
         ELSE 0
Repeat(x, n) == [i \in 1 .. n |-> x]

\* the lines of standard output of one kind
LinesOf(kind) == SelectSeq(out, LAMBDA l : l.kind = kind)
SummaryCount == Len(LinesOf("summary"))
\* the summary block is the last thing printed
SummaryIsLast ==
    \E i \in 1 .. Len(out) :
        /\ out[i].kind = "summary"
        /\ Len(out) \in {i + 3, i + 4}
        /\ out[i + 1].kind = "total"
        /\ out[i + 2].kind = "final"
        /\ out[i + 3].kind = "duration"
        /\ Len(out) = i + 4 => out[i + 4].kind = "average"
TotalReported == LinesOf("total")[1].value
FinalReported == LinesOf("final")[1].value
\* the size of the most recent successful read, 0 before the first
LastOkSize == IF Len(Oks) = 0 THEN 0 ELSE Oks[Len(Oks)]

\* ------------------------------------------------------------------ claims

\* C1: the loop stops for idleness exactly on the tick that observes the 5th
\* consecutive zero delta: an idle stop means the reads end with exactly 5
\* zero deltas, 5 zero deltas at the end of the reads mean the loop has
\* stopped for idleness, and 5 equal reads do not stop while 6 do.
C1_IdleStopsExactlyAtFive ==
    /\ exit_path = "idle" =>
          /\ IsOk(LastRead)
          /\ ZeroDeltaRun(Oks) = 5
          /\ Len(Oks) >= 6
    /\ (obs /= << >> /\ IsOk(LastRead) /\ ZeroDeltaRun(Oks) >= 5) =>
          (pc = "exited" /\ exit_path = "idle")
    /\ obs = Repeat(Some(100), 5) => exit_path /= "idle"
    /\ obs = Repeat(Some(100), 6) => exit_path = "idle"

C1_Witness ==
    /\ obs = Repeat(Some(100), 6)
    /\ exit_path = "idle"
    /\ no_change_count = 5

\* C2: each of the three ways out of the loop (stop flag seen, idle timeout,
\* read failure after a success) has printed exactly one summary block, as
\* the last output, and exits with code 0; while the program is still
\* running no summary has been printed and there is no exit code.
C2_EveryStopPrintsSummary ==
    /\ exit_path \in {"interrupt", "idle", "inaccessible"} =>
          /\ pc = "exited"
          /\ exit_code = Some(0)
          /\ SummaryCount = 1
          /\ SummaryIsLast
    /\ (pc = "exited" /\ obs /= << >>) =>
          exit_path \in {"interrupt", "idle", "inaccessible"}
    /\ pc /= "exited" => (SummaryCount = 0 /\ exit_code = None /\ exit_path = "none")

C2_Witness ==
    /\ exit_path = "inaccessible"
    /\ exit_code = Some(0)
    /\ SummaryCount = 1

\* C3: once the handler has cleared `running`, no read is started beyond
\* the tick that was in progress; leaving the loop at the loop head prints
\* the summary with final_size = the last successfully read size; a flag set
\* before the first tick means no read at all and final_size = 0.
C3_StopFlagEndsLoop ==
    /\ flag_set_at /= None =>
          /\ ~running
          /\ Len(obs) <= flag_set_at[1].reads
                         + (IF flag_set_at[1].pc = "tick" THEN 1 ELSE 0)
    /\ exit_path = "interrupt" =>
          /\ flag_set_at /= None
          /\ SummaryCount = 1
          /\ FinalReported = last_known_size
          /\ FinalReported = LastOkSize
    /\ (pc = "exited" /\ flag_set_at /= None /\ flag_set_at[1].reads = 0
            /\ flag_set_at[1].pc = "head") =>
          /\ obs = << >>
          /\ exit_path = "interrupt"
          /\ FinalReported = 0

C3_Witness ==
    /\ exit_path = "interrupt"
    /\ flag_set_at /= None
    /\ flag_set_at[1].pc = "tick"
    /\ flag_set_at[1].reads = 1
    /\ Len(obs) = 2
    /\ FinalReported = 80

\* C4: a failed read ends the run if and only if an earlier read of the run
\* succeeded; then the loop stops on that very tick (no sleep, no further
\* read) and the summary's final_size is the size of the most recent
\* successful read.
C4_FailureAfterSuccessIsTerminal ==
    /\ \A i \in 1 .. Len(obs) :
          ~IsOk(obs[i]) =>
              ((\E j \in 1 .. i - 1 : IsOk(obs[j]))
                  <=> (i = Len(obs) /\ pc = "exited" /\ exit_path = "inaccessible"))
    /\ exit_path = "inaccessible" =>
          /\ ~IsOk(LastRead)
          /\ sleeps = Len(obs) - 1
          /\ SummaryCount = 1
          /\ FinalReported = last_known_size
          /\ FinalReported = LastOkSize

C4_Witness ==
    /\ obs = << None, Some(1024), Some(100), None >>
    /\ exit_path = "inaccessible"
    /\ FinalReported = 100

\* C5: while every read so far has failed, initial_size and previous_size
\* are absent, last_known_size and no_change_count are 0, the loop has not
\* stopped by itself (it only ends through the stop flag), and no summary
\* is printed before that.
C5_FailureBeforeSuccessIsWaiting ==
    (obs /= << >> /\ AllFailed) =>
        /\ initial_size = None
        /\ previous_size = None
        /\ last_known_size = 0
        /\ no_change_count = 0
        /\ exit_path \in {"none", "interrupt"}
        /\ exit_path = "none" => (pc \in {"sleep", "head", "tick"} /\ SummaryCount = 0)
        /\ exit_path = "interrupt" => ~running
        /\ Len(LinesOf("waiting")) = Len(obs)

C5_Witness ==
    /\ obs = Repeat(None, 3)
    /\ AllFailed
    /\ pc = "sleep"
    /\ running

\* C6: in a run where every read fails, no summary is printed and the
\* program does not exit before the interrupt is delivered; once it is
\* delivered the program exits, and then exactly one summary has been
\* printed, with initial_size absent, total_downloaded = 0, final_size = 0.
C6_NeverExistsState ==
    (AllFailed /\ exit_path \notin {"usage", "panic"}) =>
        /\ flag_set_at = None => (SummaryCount = 0 /\ pc /= "exited")
        /\ pc = "exited" =>
              /\ exit_path = "interrupt"
              /\ SummaryCount = 1
              /\ initial_size = None
              /\ TotalReported = 0
              /\ FinalReported = 0

C6_PathNeverExists ==
    /\ []C6_NeverExistsState
    /\ (flag_set_at /= None /\ AllFailed) ~> (pc = "exited" /\ C6_NeverExistsState)

C6_Witness ==
    /\ obs = Repeat(None, 2)
    /\ exit_path = "interrupt"
    /\ SummaryCount = 1
    /\ TotalReported = 0

\* C7: on every successful read after the first the delta is
\* max(0, current - previous) and never negative; a positive delta is
\* reported as the speed and resets the idle counter, and a shrink or an
\* unchanged size is reported as an idle tick that increments the counter.
C7_TickDelta ==
    (pc = "tick" /\ previous_size /= None /\ Len(obs') = Len(obs) + 1
        /\ IsOk(obs'[Len(obs')])) =>
        LET current == obs'[Len(obs')][1]
            delta   == Max0(current - previous_size[1])
            status  == out'[Len(out) + 1]
        IN  /\ Len(out') > Len(out)
            /\ status.value >= 0
            /\ delta = 0 =>
                  /\ status.kind = "idle"
                  /\ status.value = no_change_count + 1
                  /\ no_change_count' = no_change_count + 1
            /\ delta > 0 =>
                  /\ status.kind = "speed"
                  /\ status.value = delta
                  /\ no_change_count' = 0

C7_DeltaNeverNegative == [][C7_TickDelta]_vars

C7_Witness ==
    /\ obs = << Some(100), Some(80) >>
    /\ out[Len(out)].kind = "idle"
    /\ no_change_count = 1
    /\ previous_size = Some(80)

\* C8: when all reads succeeded, the sizes never decreased and the last six
\* reads are equal (five unchanged reads in a row), the loop has stopped by
\* idle timeout and the summary reports final_size = the last size read and
\* total_downloaded = last size - first size.
NonDecreasing(sz) == \A i \in 1 .. Len(sz) - 1 : sz[i] <= sz[i + 1]
EndsWithFiveUnchanged(sz) ==
    /\ Len(sz) >= 6
    /\ \A i \in (Len(sz) - 5) .. Len(sz) : sz[i] = sz[Len(sz)]

C8_GrowthThenIdle ==
    (Len(obs) = Len(Oks) /\ NonDecreasing(Oks) /\ EndsWithFiveUnchanged(Oks)) =>
        /\ pc = "exited"
        /\ exit_path = "idle"
        /\ SummaryCount = 1
        /\ FinalReported = Oks[Len(Oks)]
        /\ TotalReported = Oks[Len(Oks)] - Oks[1]

C8_Witness ==
    /\ obs = << Some(0) >> \o Repeat(Some(1024), 6)
    /\ exit_path = "idle"
    /\ TotalReported = 1024
    /\ FinalReported = 1024

\* C9: print_summary reports total_downloaded = max(0, final_size -
\* (initial_size or 0)); it prints the average-speed line exactly when
\* elapsed_secs > 0, and the average is then the integer quotient of
\* total_downloaded by elapsed_secs; initial 1000, final 5000, elapsed 10
\* give total 4000 and average 400, rendered "400 B".
SummaryDone == call.fn = "print_summary" /\ call.res /= None

C9_SummaryComputation ==
    SummaryDone =>
        LET initial == call.arg[1]
            final   == call.arg[2]
            elapsed == call.arg[3]
            lines   == call.res[1]
            total   == Max0(final - (IF initial = None THEN 0 ELSE initial[1]))
            average == SelectSeq(lines, LAMBDA l : l.kind = "average")
        IN  /\ Len(lines) >= 4
            /\ lines[1].kind = "summary"
            /\ lines[2].kind = "total" /\ lines[2].value = total
            /\ lines[3].kind = "final" /\ lines[3].value = final
            /\ lines[4].kind = "duration" /\ lines[4].value = elapsed
            /\ Len(average) = (IF elapsed > 0 THEN 1 ELSE 0)
            /\ Len(lines) = 4 + Len(average)
            /\ elapsed > 0 =>
                  /\ average[1].value * elapsed <= total
                  /\ total < (average[1].value + 1) * elapsed
            /\ call.arg = << Some(1000), 5000, 10 >> =>
                  /\ total = 4000
                  /\ average[1].value = 400
                  /\ average[1].text = << [digits |-> 400, decimals |-> 0, unit |-> "B"] >>

C9_Witness ==
    /\ SummaryDone
    /\ call.arg = << Some(1000), 5000, 10 >>
    /\ Len(call.res[1]) = 5
    /\ call.res[1][5].value = 400

\* C10 as stated: for every byte count b, format_bytes picks plain bytes
\* when b < 1024 and otherwise the unit u of {KB, MB, GB} with
\* 1 <= b / u_size < 1024.
LtU64(a, b) == a.hi < b.hi \/ (a.hi = b.hi /\ a.lo < b.lo)
UnitSize(u) ==
    CASE u = "B"  -> [hi |-> 0, lo |-> 1]
      [] u = "KB" -> [hi |-> 0, lo |-> 1024]
      [] u = "MB" -> [hi |-> 0, lo |-> 1024 * 1024]
      [] u = "GB" -> [hi |-> 1, lo |-> 0]
\* 1024 * UnitSize(u)
UnitCeiling(u) ==
    CASE u = "B"  -> [hi |-> 0, lo |-> 1024]
      [] u = "KB" -> [hi |-> 0, lo |-> 1024 * 1024]
      [] u = "MB" -> [hi |-> 1, lo |-> 0]
      [] u = "GB" -> [hi |-> 1024, lo |-> 0]
InUnitRange(b, u) == ~LtU64(b, UnitSize(u)) /\ LtU64(b, UnitCeiling(u))
BytesDone == call.fn = "format_bytes" /\ call.res /= None
UnitSelected(b, u) ==
    IF LtU64(b, UnitSize("KB"))
    THEN u = "B"
    ELSE u \in {"KB", "MB", "GB"} /\ InUnitRange(b, u)

C10_UnitInRangeForAll ==
    BytesDone => UnitSelected(call.arg[1], call.res[1].unit)

\* C10 amended: the same for every b < 2^40; for b >= 2^40 the unit is GB
\* and b / u_size is 1024 or more.
C10_UnitSelection ==
    BytesDone =>
        LET b == call.arg[1]
            u == call.res[1].unit
        IN  IF LtU64(b, UnitCeiling("GB"))
            THEN UnitSelected(b, u)
            ELSE u = "GB" /\ ~InUnitRange(b, u)

C10_Witness ==
    /\ BytesDone
    /\ call.arg[1] = [hi |-> 1024, lo |-> 0]
    /\ call.res[1] = [digits |-> 102400, decimals |-> 2, unit |-> "GB"]

\* C11: the components h, m, s that format_duration renders recombine to
\* the duration (absent components count as 0); the hours component is
\* there iff d >= 3600, the minutes component iff d >= 60, and m < 60 and
\* s < 60 whenever a larger component is there.
DurationDone == call.fn = "format_duration" /\ call.res /= None
\* the number rendered with unit u, 0 when the unit is absent
Component(parts, u) ==
    LET with == SelectSeq(parts, LAMBDA c : c.u = u)
    IN  IF Len(with) = 0 THEN 0 ELSE with[1].n
Has(parts, u) == \E i \in 1 .. Len(parts) : parts[i].u = u

C11_DurationRoundTrip ==
    DurationDone =>
        LET d     == call.arg[1]
            parts == call.res[1]
            h     == Component(parts, "h")
            m     == Component(parts, "m")
            s     == Component(parts, "s")
        IN  /\ h * 3600 + m * 60 + s = d
            /\ Has(parts, "h") <=> d >= 3600
            /\ Has(parts, "m") <=> d >= 60
            /\ Has(parts, "s")
            /\ Len(parts) = 1 + (IF d >= 60 THEN 1 ELSE 0) + (IF d >= 3600 THEN 1 ELSE 0)
            /\ Has(parts, "h") => m < 60
            /\ Has(parts, "m") => s < 60

C11_Witness ==
    /\ DurationDone
    /\ call.arg[1] = 2 * 3600 + 59 * 60 + 59
    /\ call.res[1] = << [n |-> 2, u |-> "h"], [n |-> 59, u |-> "m"], [n |-> 59, u |-> "s"] >>

\* C12: the stop flag starts as "keep running" (TRUE); only the handler
\* writes it, every write leaves it at "stop requested" (FALSE), no step of
\* main changes it, and once FALSE it stays FALSE.
HandlerStep ==
    /\ pc' = pc
    /\ flag_set_at' /= None
    /\ UNCHANGED << loopVars, sleeps, out, err, exit_code, exit_path, obs >>

C12_FlagStep ==
    /\ running' /= running => (HandlerStep /\ running /\ ~running')
    /\ pc' /= pc => running' = running
    /\ flag_set_at' /= flag_set_at => (HandlerStep /\ ~running')
    /\ ~running => ~running'

C12_StopFlagMonotonic == (running = TRUE) /\ [][C12_FlagStep]_vars

C12_Witness ==
    /\ ~running
    /\ flag_set_at /= None
    /\ flag_set_at[1].reads < Len(obs)
    /\ pc = "sleep"

\* C13: with an argument count other than 2 the program exits with code 1
\* after one usage line on standard error; it never installs the handler,
\* never reads the file size, prints nothing on standard output and no
\* summary.
C13_WrongArgCount ==
    /\ argc /= 2 =>
          /\ pc \in {"start", "exited"}
          /\ obs = << >>
          /\ out = << >>
          /\ flag_set_at = None
          /\ running
          /\ sleeps = 0
          /\ pc = "start" => (err = << >> /\ exit_code = None)
          /\ pc = "exited" =>
                /\ exit_code = Some(1)
                /\ exit_path = "usage"
                /\ Len(err) = 1 /\ err[1].kind = "usage"
    /\ argc = 2 => (err = << >> /\ exit_code /= Some(1) /\ exit_path /= "usage")

C13_Witness ==
    /\ argc = 3
    /\ pc = "exited"
    /\ exit_code = Some(1)
    /\ Len(err) = 1

\* C14: a tick ends the loop only if it observes the 5th consecutive zero
\* delta or fails after an earlier successful read, and the loop head ends
\* it only if the stop flag is set; every other tick goes to sleep, and the
\* sleep goes back to the loop head.
ReadStep == pc = "tick" /\ Len(obs') = Len(obs) + 1

C14_LoopStep ==
    /\ (pc = "tick" /\ pc' /= pc) =>
          LET r    == obs'[Len(obs')]
              idle == IsOk(r) /\ ZeroDeltaRun(Oks') = 5
              gone == ~IsOk(r) /\ \E j \in 1 .. Len(obs) : IsOk(obs[j])
          IN  /\ ReadStep
              /\ idle => no_change_count' = 5
              /\ IF idle \/ gone
                 THEN /\ pc' = "exited"
                      /\ exit_path' = (IF idle THEN "idle" ELSE "inaccessible")
                 ELSE /\ pc' = "sleep"
                      /\ exit_code' = None
                      /\ exit_path' = "none"
    /\ (pc = "head" /\ pc' /= pc) =>
          IF running
          THEN pc' = "tick" /\ exit_code' = None
          ELSE pc' = "exited" /\ exit_path' = "interrupt"
    /\ (pc = "sleep" /\ pc' /= pc) => (pc' = "head" /\ exit_code' = None)
    /\ pc = "exited" => pc' = "exited"

C14_StopsOnlyOnStopCondition == [][C14_LoopStep]_vars

C14_Witness ==
    /\ obs = << Some(0), Some(100), Some(100) >>
    /\ pc = "sleep"
    /\ exit_code = None
    /\ no_change_count = 1

\* C15: a tick that computes a delta sets no_change_count to 0 when the
\* size grew and adds exactly 1 otherwise, no other step changes it, and so
\* it always equals the number of consecutive zero-delta ticks at the end
\* of the successful reads; growth before the 5th restarts the count.
C15_CounterStep ==
    IF ReadStep /\ previous_size /= None /\ IsOk(obs'[Len(obs')])
    THEN no_change_count' =
            (IF obs'[Len(obs')][1] > previous_size[1] THEN 0 ELSE no_change_count + 1)
    ELSE no_change_count' = no_change_count

C15_IdleCounterRule ==
    /\ [](no_change_count = ZeroDeltaRun(Oks))
    /\ [][C15_CounterStep]_vars

C15_Witness ==
    /\ obs = Repeat(Some(100), 5) \o << Some(1024), Some(1024) >>
    /\ no_change_count = 1
    /\ pc = "sleep"

\* C16: initial_size is absent until the first successful read, is the
\* size of that read from then on, is never changed by a later step, and
\* is what the summary's total is computed from.
FirstOk == IF Len(Oks) = 0 THEN None ELSE Some(Oks[1])

C16_InitialState ==
    /\ initial_size = FirstOk
    /\ SummaryCount = 1 =>
          TotalReported = Max0(FinalReported - (IF FirstOk = None THEN 0 ELSE FirstOk[1]))

C16_InitialSetOnce ==
    /\ []C16_InitialState
    /\ [][initial_size /= None => initial_size' = initial_size]_vars

C16_Witness ==
    /\ obs = << None, Some(100), Some(80), Some(1024), None >>
    /\ initial_size = Some(100)
    /\ TotalReported = 924

\* C17: last_known_size and previous_size change only on a successful
\* read; a successful read that does not stop the loop leaves both at the
\* size just read, also when it is smaller than the previous one; so while
\* the loop runs after the first success previous_size = last_known_size.
C17_SizeStep ==
    /\ (previous_size' /= previous_size \/ last_known_size' /= last_known_size) =>
          (ReadStep /\ IsOk(obs'[Len(obs')]))
    /\ (ReadStep /\ IsOk(obs'[Len(obs')]) /\ pc' /= "exited") =>
          /\ previous_size' = obs'[Len(obs')]
          /\ last_known_size' = obs'[Len(obs')][1]

C17_SizesFollowReads ==
    /\ []((pc \in {"sleep", "head", "tick"} /\ Len(Oks) > 0) =>
            (previous_size = Some(last_known_size) /\ last_known_size = LastOkSize))
    /\ [](last_known_size = LastOkSize)
    /\ [][C17_SizeStep]_vars

C17_Witness ==
    /\ obs = << Some(1024), Some(80), None >>
    /\ previous_size = Some(80)
    /\ last_known_size = 80
    /\ exit_path = "inaccessible"

\* C18: at most one summary is ever printed; the idle-timeout and the
\* file-inaccessible exits have printed exactly one, also when the
\* interrupt arrived during that tick, and nothing is printed and no step
\* is taken after the exit.
C18_SummaryOnce ==
    /\ [](/\ SummaryCount <= 1
          /\ exit_path \in {"idle", "inaccessible"} =>
                (pc = "exited" /\ SummaryCount = 1 /\ SummaryIsLast))
    /\ [][pc = "exited" => (pc' = "exited" /\ out' = out /\ exit_path' = exit_path)]_vars

C18_Witness ==
    /\ exit_path = "idle"
    /\ ~running
    /\ flag_set_at /= None
    /\ flag_set_at[1].pc = "tick"
    /\ flag_set_at[1].reads = 5
    /\ SummaryCount = 1

\* C19: the deltas printed as speed add up to at least the summary's
\* total_downloaded; they add up to exactly that when the sizes read never
\* decreased, and to strictly more when a shrink was followed by growth.
RECURSIVE SumValues(_)
SumValues(lines) ==
    IF Len(lines) = 0 THEN 0 ELSE lines[1].value + SumValues(Tail(lines))
SumSpeed == SumValues(LinesOf("speed"))
RECURSIVE SumGrowth(_)
SumGrowth(sz) ==
    IF Len(sz) < 2 THEN 0
    ELSE Max0(sz[Len(sz)] - sz[Len(sz) - 1]) + SumGrowth(SubSeq(sz, 1, Len(sz) - 1))
ShrinkThenGrowth(sz) ==
    \E i, j \in 1 .. Len(sz) - 1 : i < j /\ sz[i] > sz[i + 1] /\ sz[j] < sz[j + 1]

C19_SpeedSumCoversTotal ==
    /\ SumSpeed = SumGrowth(Oks)
    /\ SummaryCount = 1 =>
          /\ SumSpeed >= TotalReported
          /\ NonDecreasing(Oks) => SumSpeed = TotalReported
          /\ ShrinkThenGrowth(Oks) => SumSpeed > TotalReported

C19_Witness ==
    /\ obs = << Some(100), Some(80), Some(100), None >>
    /\ SummaryCount = 1
    /\ SumSpeed = 20
    /\ TotalReported = 0

\* C20: no_change_count is always within 0..5; it is 5 exactly in the
\* states after an idle-timeout exit, so the test `>= 5` never sees more
\* than 5; every idle status line shows a count within 1..5; and the
\* counter is 0 while no read has succeeded.
C20_CounterRange ==
    /\ no_change_count \in 0 .. IdleLimit
    /\ no_change_count = IdleLimit <=> exit_path = "idle"
    /\ no_change_count = IdleLimit => pc = "exited"
    /\ \A i \in 1 .. Len(out) :
          out[i].kind = "idle" => out[i].value \in 1 .. IdleLimit
    /\ Len(Oks) = 0 => no_change_count = 0

C20_Witness ==
    /\ no_change_count = 5
    /\ exit_path = "idle"
    /\ out[Len(out) - 5].kind = "idle"
    /\ out[Len(out) - 5].value = 5
    /\ Oks[1] /= Oks[Len(Oks)]

====
